---------------------------- MODULE Spec2Model ----------------------------
(***************************************************************************)
(* Model of bower-gui's server side:                                       *)
(*   - BowerManager (src/src/server/bower/BowerManager.ts): adapts bower's *)
(*     event-emitting commands and the fs callbacks to q deferreds;        *)
(*   - the socket BaseSrv (src/unnamed/part_002): the connection registry; *)
(*   - the REST BaseSrv (src/unnamed/part_001): HTTP responses settling    *)
(*     jQuery deferreds through the descriptor carried on each request.    *)
(***************************************************************************)
EXTENDS Integers, Sequences, FiniteSets, TLC

(***************************************************************************)
(* Bounds                                                                  *)
(***************************************************************************)
\* BowerManager operations invoked in one behaviour (they may overlap)
MaxCalls == 2
\* events and callbacks delivered to the handlers in one behaviour
MaxEvents == 2
\* socket clients that connect in one behaviour
MaxClients == 3
\* REST requests made in one behaviour (they may be outstanding together)
MaxRequests == 2

VARIABLES
    calls,        \* BowerManager: one record per invocation (closure state)
    delivered,    \* number of events and callbacks delivered so far
    last,         \* the most recent step: [call, ev]
    trace,        \* what the most recent step did, in order
    file,         \* content of bower.json on disk (Null when absent)
    connections,  \* BaseSrv.connections: Map entries in insertion order
    sockets,      \* transport state of each client socket
    disconnectCalls, \* number of disconnect(true) calls made on each socket
    hookArg,      \* first argument of the last _onClientDisconnect call
    steps,        \* what the most recent socket handler did, in order
    hooks,        \* the subclass hooks the most recent socket handler called
    summary,      \* the count of the last "Disconected N" log line
    daCalled,     \* disconnectAll has been called
    namespace,    \* BaseSrv.namespace ("" when none was supplied)
    bound,        \* the emitters _onClientConnect is bound to, for 'connect'
    channel,      \* the emitter each client connected on ("" before it does)
    requests,     \* REST BaseSrv: one record per _makeRequest call
    rlast,        \* the most recent REST step: [req, kind]
    hookCalls     \* the _parseResult calls the most recent REST step made

bowerVars == <<calls, delivered, last, trace, file>>
socketVars ==
    <<connections, sockets, disconnectCalls, hookArg, steps, hooks, summary,
      daCalled, namespace, bound, channel>>
restVars == <<requests, rlast, hookCalls>>
vars == <<calls, delivered, last, trace, file, connections, sockets,
          disconnectCalls, hookArg, steps, hooks, summary, daCalled,
          namespace, bound, channel, requests, rlast, hookCalls>>

(***************************************************************************)
(* JavaScript values, as [kind, body] with body a sequence of strings      *)
(***************************************************************************)
Null == [kind |-> "null", body |-> <<>>]
True == [kind |-> "true", body |-> <<>>]
\* an IError {code, message} as emitted by bower or passed by fs
ErrCode(e) == e.body[1]
Err(code) == [kind |-> "error", body |-> <<code, "message">>]
\* the payload of an 'end' event
Payload(p) == [kind |-> "payload", body |-> <<p>>]
\* a string, as its sequence of lexical tokens
Text(toks) == [kind |-> "text", body |-> toks]
\* a parsed JSON value
Json(v) == [kind |-> "json", body |-> v]
\* a TypeError raised by the runtime
TypeError == [kind |-> "error", body |-> <<"TypeError", "message">>]

(***************************************************************************)
(* JSON.parse and JSON.stringify(value, null, 2) on token sequences        *)
(***************************************************************************)
Quote == "\""
Atoms == {"name", "app"}
Digits == {"1"}
Whitespace == {" ", "\n", "\n  "}

RECURSIVE StripWs(_)
StripWs(t) ==
    IF t = <<>> THEN <<>>
    ELSE IF Head(t) \in Whitespace THEN StripWs(Tail(t))
    ELSE <<Head(t)>> \o StripWs(Tail(t))

ParseFail == [ok |-> FALSE, val |-> <<>>]

RECURSIVE ParseTokens(_)
ParseTokens(t) ==
    IF Len(t) = 1 /\ t[1] = "null" THEN [ok |-> TRUE, val |-> <<"null">>]
    ELSE IF Len(t) = 1 /\ t[1] = "true" THEN [ok |-> TRUE, val |-> <<"true">>]
    ELSE IF Len(t) = 1 /\ t[1] \in Digits THEN [ok |-> TRUE, val |-> <<"num", t[1]>>]
    ELSE IF Len(t) = 3 /\ t[1] = Quote /\ t[3] = Quote /\ t[2] \in Atoms
        THEN [ok |-> TRUE, val |-> <<"str", t[2]>>]
    ELSE IF t = <<"{", "}">> THEN [ok |-> TRUE, val |-> <<"obj">>]
    ELSE IF /\ Len(t) >= 7
            /\ t[1] = "{" /\ t[Len(t)] = "}"
            /\ t[2] = Quote /\ t[3] \in Atoms /\ t[4] = Quote /\ t[5] = ":"
        THEN LET inner == ParseTokens(SubSeq(t, 6, Len(t) - 1))
             IN  IF inner.ok THEN [ok |-> TRUE, val |-> <<"obj", t[3]>> \o inner.val]
                 ELSE ParseFail
    ELSE ParseFail

\* JSON.parse(text): [ok, val]; ok = FALSE stands for the SyntaxError thrown
JSONParse(toks) == ParseTokens(StripWs(toks))

\* JSON.stringify(value, null, 2); the values of the model are scalars and
\* objects with at most one member, whose value is a scalar
RECURSIVE JSONStringify(_)
JSONStringify(v) ==
    IF v[1] = "null" THEN <<"null">>
    ELSE IF v[1] = "true" THEN <<"true">>
    ELSE IF v[1] = "num" THEN <<v[2]>>
    ELSE IF v[1] = "str" THEN <<Quote, v[2], Quote>>
    ELSE IF Len(v) = 1 THEN <<"{", "}">>
    ELSE <<"{", "\n  ", Quote, v[2], Quote, ":", " ">>
            \o JSONStringify(SubSeq(v, 3, Len(v))) \o <<"\n", "}">>

(***************************************************************************)
(* q deferreds: the first settlement wins, later ones are ignored          *)
(***************************************************************************)
NewDefer == [state |-> "pending", value |-> Null, settles |-> 0]

DeferResolve(d, v) ==
    IF d.state = "pending"
    THEN [state |-> "resolved", value |-> v, settles |-> d.settles + 1]
    ELSE d

\* a deferred that lets a later rejection replace an earlier settlement
DeferRejectOverwrite(d, e) ==
    [state |-> "rejected", value |-> e, settles |-> d.settles + 1]

DeferReject(d, e) ==
    IF d.state = "pending"
    THEN [state |-> "rejected", value |-> e, settles |-> d.settles + 1]
    ELSE d

(***************************************************************************)
(* BowerManager: events of the underlying command and of fs                *)
(***************************************************************************)
CommandOps == {"installAll", "install", "uninstall", "info", "search", "listPackages"}

LogIds == {"not-installed", "cached"}
ErrorCodes == {"ENOTFOUND", "ECONFLICT"}
EndPayloads == {"pkg"}
IOErrorCodes == {"EACCES"}

\* an event or callback: its type, the log id, and the error and data passed
NoEvent == [type |-> "none", id |-> "", err |-> Null, data |-> Null]
LogEvent(id) == [type |-> "log", id |-> id, err |-> Null, data |-> Null]
ErrorEvent(code) == [type |-> "error", id |-> "", err |-> Err(code), data |-> Null]
EndEvent(p) == [type |-> "end", id |-> "", err |-> Null, data |-> Payload(p)]
\* the readFile callback's (error, data)
ReadOk(text) == [type |-> "read", id |-> "", err |-> Null, data |-> text]
ReadFailed(code) == [type |-> "read", id |-> "", err |-> Err(code), data |-> Null]
\* the writeFile callback's (err)
WriteOk == [type |-> "write", id |-> "", err |-> Null, data |-> Null]
WriteFailed(code) == [type |-> "write", id |-> "", err |-> Err(code), data |-> Null]

\* the arguments setConfigFile is called with: strings, JSON values, and a
\* value JSON.stringify throws on (a circular structure)
Circular == [kind |-> "circular", body |-> <<>>]
Configs ==
    { Json(<<"obj", "name", "str", "app">>),
      Text(<<"{", Quote, "name", Quote, ":", Quote, "app", Quote, "}">>),
      Text(<<"{", Quote, "name">>),
      Circular }

\* logger.info(...) returns the continuation log marker
LoggerInfo == "fn"

\* what a handler leaves behind: the deferred, continueLog, and its effects
Eff(d, cl, tr) == [d |-> d, cl |-> cl, tr |-> tr]

(***************************************************************************)
(* BowerManager: the handlers each operation binds                         *)
(* c is the invocation's record: c.d the deferred, c.cl continueLog        *)
(***************************************************************************)
installAll_onLog(c, log) ==
    Eff(c.d, c.cl,
        <<"logger.trace">>
            \o (IF log.id = "cached" THEN <<"logger.trace">> ELSE <<>>)
            \o <<"logger.file.info">>)

installAll_onError(c, e) ==
    Eff(DeferReject(c.d, e.err), c.cl, <<"logger.error", "reject">>)

installAll_onEnd(c, result) ==
    Eff(DeferResolve(c.d, result.data), c.cl,
        (IF c.cl # "null" THEN <<"continueLog">> ELSE <<>>) \o <<"resolve">>)

install_onLog(c, log) == Eff(c.d, c.cl, <<>>)

install_onError(c, e) ==
    Eff(DeferReject(c.d, e.err), c.cl, <<"logger.error", "reject">>)

install_onEnd(c, result) ==
    Eff(DeferResolve(c.d, result.data), c.cl,
        (IF c.cl # "null" THEN <<"continueLog">> ELSE <<>>) \o <<"resolve">>)

\* a 'log' handler that reports 'not-installed' and leaves the settlement
\* to the terminal event
uninstall_onLogNoResolve(c, log) ==
    IF log.id = "not-installed"
    THEN IF c.cl = "null"
         THEN Eff(c.d, c.cl, <<"throw">>)
         ELSE Eff(c.d, "null", <<"continueLog", "logger.warn">>)
    ELSE Eff(c.d, c.cl, <<>>)

\* continueLog("^gok^:") on a continueLog that is null raises a TypeError
\* and the rest of the handler does not run
uninstall_onLog(c, log) ==
    IF log.id = "not-installed"
    THEN IF c.cl = "null"
         THEN Eff(c.d, c.cl, <<"throw">>)
         ELSE Eff(DeferResolve(c.d, Null), "null",
                  <<"continueLog", "logger.warn", "resolve">>)
    ELSE Eff(c.d, c.cl, <<>>)

uninstall_onError(c, e) ==
    Eff(DeferReject(c.d, e.err), c.cl, <<"logger.error", "reject">>)

uninstall_onEnd(c, result) ==
    Eff(DeferResolve(c.d, result.data), c.cl,
        (IF c.cl # "null" THEN <<"continueLog">> ELSE <<>>) \o <<"resolve">>)

info_onLog(c, log) == Eff(c.d, c.cl, <<>>)

\* an 'error' handler without the ENOTFOUND case
info_onErrorAlwaysReject(c, e) ==
    Eff(DeferReject(c.d, e.err), c.cl, <<"logger.error", "reject">>)

info_onError(c, e) ==
    IF ErrCode(e.err) = "ENOTFOUND"
    THEN Eff(DeferResolve(c.d, Null), c.cl, <<"continueLog", "resolve">>)
    ELSE Eff(DeferReject(c.d, e.err), c.cl, <<"logger.error", "reject">>)

\* an 'end' handler that writes the continuation and leaves the future alone
info_onEndLogOnly(c, result) == Eff(c.d, c.cl, <<"continueLog">>)

info_onEnd(c, result) ==
    Eff(DeferResolve(c.d, result.data), c.cl, <<"continueLog", "resolve">>)

search_onLog(c, log) == Eff(c.d, c.cl, <<>>)

\* an 'error' handler that logs the failure and forgets to reject
search_onErrorLogOnly(c, e) == Eff(c.d, c.cl, <<"logger.error">>)

search_onError(c, e) ==
    Eff(DeferReject(c.d, e.err), c.cl, <<"logger.error", "reject">>)

search_onEnd(c, results) ==
    Eff(DeferResolve(c.d, results.data), c.cl, <<"continueLog", "resolve">>)

listPackages_onLog(c, e) == Eff(c.d, c.cl, <<"logger.trace">>)

listPackages_onError(c, e) ==
    Eff(DeferReject(c.d, e.err), c.cl, <<"logger.error", "reject">>)

listPackages_onEnd(c, info) ==
    Eff(DeferResolve(c.d, info.data), c.cl, <<"continueLog", "resolve">>)

\* the handler the operation op bound for the event ev
OnEvent(c, ev) ==
    CASE c.op = "installAll" /\ ev.type = "log" -> installAll_onLog(c, ev)
      [] c.op = "installAll" /\ ev.type = "error" -> installAll_onError(c, ev)
      [] c.op = "installAll" /\ ev.type = "end" -> installAll_onEnd(c, ev)
      [] c.op = "install" /\ ev.type = "log" -> install_onLog(c, ev)
      [] c.op = "install" /\ ev.type = "error" -> install_onError(c, ev)
      [] c.op = "install" /\ ev.type = "end" -> install_onEnd(c, ev)
      [] c.op = "uninstall" /\ ev.type = "log" -> uninstall_onLog(c, ev)
      [] c.op = "uninstall" /\ ev.type = "error" -> uninstall_onError(c, ev)
      [] c.op = "uninstall" /\ ev.type = "end" -> uninstall_onEnd(c, ev)
      [] c.op = "info" /\ ev.type = "log" -> info_onLog(c, ev)
      [] c.op = "info" /\ ev.type = "error" -> info_onError(c, ev)
      [] c.op = "info" /\ ev.type = "end" -> info_onEnd(c, ev)
      [] c.op = "search" /\ ev.type = "log" -> search_onLog(c, ev)
      [] c.op = "search" /\ ev.type = "error" -> search_onError(c, ev)
      [] c.op = "search" /\ ev.type = "end" -> search_onEnd(c, ev)
      [] c.op = "listPackages" /\ ev.type = "log" -> listPackages_onLog(c, ev)
      [] c.op = "listPackages" /\ ev.type = "error" -> listPackages_onError(c, ev)
      [] c.op = "listPackages" /\ ev.type = "end" -> listPackages_onEnd(c, ev)

(***************************************************************************)
(* getConfigFile and setConfigFile                                         *)
(***************************************************************************)
\* a readFile callback that treats every read error alike
getConfigFile_onReadNoEnoent(c, ev) ==
    IF ev.err = Null
    THEN IF JSONParse(ev.data.body).ok
         THEN Eff(DeferResolve(c.d, ev.data), c.cl, <<"continueLog", "resolve">>)
         ELSE Eff(DeferReject(c.d, ev.err), c.cl, <<"reject", "throw">>)
    ELSE Eff(DeferReject(c.d, ev.err), c.cl, <<"reject", "logger.error">>)

\* the readFile callback. When JSON.parse throws, the catch block rejects with
\* `error` (null on this branch) and then reads error.message, which raises
getConfigFile_onRead(c, ev) ==
    IF ev.err = Null
    THEN IF JSONParse(ev.data.body).ok
         THEN Eff(DeferResolve(c.d, ev.data), c.cl, <<"continueLog", "resolve">>)
         ELSE Eff(DeferReject(c.d, ev.err), c.cl, <<"reject", "throw">>)
    ELSE IF ErrCode(ev.err) = "ENOENT"
         THEN Eff(DeferResolve(c.d, Null), c.cl, <<"resolve", "continueLog">>)
         ELSE Eff(DeferReject(c.d, ev.err), c.cl, <<"reject", "logger.error">>)

\* a setConfigFile that hands an object to writeFile as it is, so that what
\* is written is its String(...) form
setConfigFile_textNoStringify(config) ==
    IF config.kind = "text" THEN [ok |-> TRUE, text |-> config]
    ELSE IF config.kind = "json"
         THEN [ok |-> TRUE, text |-> Text(<<"[object Object]">>)]
    ELSE [ok |-> FALSE, text |-> Null]

\* the text setConfigFile hands to writeFile; ok = FALSE when stringify throws
setConfigFile_text(config) ==
    IF config.kind = "text" THEN [ok |-> TRUE, text |-> config]
    ELSE IF config.kind = "json"
         THEN [ok |-> TRUE, text |-> Text(JSONStringify(config.body))]
    ELSE [ok |-> FALSE, text |-> Null]

\* the synchronous part of setConfigFile: the try block and its catch
setConfigFile_try(d, config) ==
    IF setConfigFile_text(config).ok
    THEN Eff(d, LoggerInfo, <<"writeFile">>)
    ELSE Eff(DeferReject(d, TypeError), LoggerInfo, <<"reject", "logger.error">>)

\* a writeFile callback that takes every write for a success
setConfigFile_onWriteIgnoreErr(c, ev) ==
    Eff(DeferResolve(c.d, True), c.cl, <<"continueLog", "resolve">>)

\* the writeFile callback
setConfigFile_onWrite(c, ev) ==
    IF ev.err = Null
    THEN Eff(DeferResolve(c.d, True), c.cl, <<"continueLog", "resolve">>)
    ELSE Eff(DeferReject(c.d, ev.err), c.cl, <<"logger.error", "reject">>)

(***************************************************************************)
(* BowerManager: the operations and the delivery of events                 *)
(***************************************************************************)
\* the closure state of one invocation. term, ni and cb record the history:
\* the first terminal event (or fs callback) delivered, whether a
\* 'not-installed' log came before any terminal event, whether the fs
\* callback has run; config is the argument of setConfigFile and text what
\* it handed to writeFile
NewCall(op, eff, text) ==
    [op |-> op, d |-> eff.d, cl |-> eff.cl, term |-> NoEvent, ni |-> FALSE,
     cb |-> FALSE, text |-> text, config |-> Null]

InvokeEvent(op) == [type |-> "invoke", id |-> op, err |-> Null, data |-> Null]

\* installAll, install, uninstall, info, search, listPackages: create the
\* deferred, log, start the command and bind the three handlers
InvokeCommand(op) ==
    /\ Len(calls) < MaxCalls
    /\ calls' = Append(calls, NewCall(op, Eff(NewDefer, LoggerInfo, <<>>), Null))
    /\ last' = [call |-> Len(calls) + 1, ev |-> InvokeEvent(op)]
    /\ trace' = <<"logger.info">>
    /\ UNCHANGED <<delivered, file>>
    /\ UNCHANGED <<socketVars, restVars>>

getConfigFile ==
    /\ Len(calls) < MaxCalls
    /\ calls' = Append(calls,
                    NewCall("getConfigFile", Eff(NewDefer, LoggerInfo, <<>>), Null))
    /\ last' = [call |-> Len(calls) + 1, ev |-> InvokeEvent("getConfigFile")]
    /\ trace' = <<"logger.info", "readFile">>
    /\ UNCHANGED <<delivered, file>>
    /\ UNCHANGED <<socketVars, restVars>>

setConfigFile(config) ==
    LET eff == setConfigFile_try(NewDefer, config)
    IN  /\ Len(calls) < MaxCalls
        /\ calls' = Append(calls,
                        [NewCall("setConfigFile", eff, setConfigFile_text(config).text)
                            EXCEPT !.config = config])
        /\ last' = [call |-> Len(calls) + 1, ev |-> InvokeEvent("setConfigFile")]
        /\ trace' = <<"logger.info">> \o eff.tr
        /\ UNCHANGED <<delivered, file>>
        /\ UNCHANGED <<socketVars, restVars>>

\* the call record after its handler for ev has run
Handled(c, ev, eff) ==
    [c EXCEPT !.d = eff.d, !.cl = eff.cl,
              !.term = IF c.term = NoEvent /\ ev.type # "log"
                       THEN ev ELSE c.term,
              !.ni = c.ni \/ (ev.type = "log" /\ ev.id = "not-installed"
                               /\ c.term = NoEvent),
              !.cb = c.cb \/ ev.type \in {"read", "write"}]

\* handlers that work on a deferred and a continueLog kept in members of the
\* manager, which the latest invocation has overwritten
CapturedShared(cs, i) == Len(cs)

\* the invocation whose `defer` and `continueLog` the handlers bound by
\* invocation i work on: both are locals of that invocation, which its
\* handlers close over
Captured(cs, i) == i

\* invocation i's record as its handlers see it
Closure(i) ==
    LET t == Captured(calls, i)
    IN  [calls[i] EXCEPT !.d = calls[t].d, !.cl = calls[t].cl]

\* the invocations after a handler of invocation i has handled ev
Store(i, ev, eff) ==
    LET t == Captured(calls, i)
        noted == Handled(calls[i], ev, Eff(calls[i].d, calls[i].cl, <<>>))
    IN  [[calls EXCEPT ![i] = noted] EXCEPT ![t].d = eff.d, ![t].cl = eff.cl]

\* the handler invocation i bound for ev runs
Deliver(i, ev) ==
    /\ calls[i].op \in CommandOps
    /\ LET eff == OnEvent(Closure(i), ev)
       IN  /\ calls' = Store(i, ev, eff)
           /\ trace' = eff.tr
    /\ last' = [call |-> i, ev |-> ev]
    /\ delivered' = delivered + 1
    /\ UNCHANGED file
    /\ UNCHANGED <<socketVars, restVars>>

\* the command of invocation i emits ev
Emit(i, ev) ==
    /\ delivered < MaxEvents
    /\ Deliver(i, ev)

EmitLog(i) == \E id \in LogIds : Emit(i, LogEvent(id))
EmitError(i) == \E code \in ErrorCodes : Emit(i, ErrorEvent(code))
EmitEnd(i) == \E p \in EndPayloads : Emit(i, EndEvent(p))

\* the readFile callback of invocation i runs, once
ReadFileRun(i, ev) ==
    /\ calls[i].op = "getConfigFile"
    /\ ~calls[i].cb
    /\ LET eff == getConfigFile_onRead(Closure(i), ev)
       IN  /\ calls' = Store(i, ev, eff)
           /\ trace' = eff.tr
    /\ last' = [call |-> i, ev |-> ev]
    /\ delivered' = delivered + 1
    /\ UNCHANGED file
    /\ UNCHANGED <<socketVars, restVars>>

\* fs calls the readFile callback of invocation i
ReadFileCallback(i, ev) ==
    /\ delivered < MaxEvents
    /\ ReadFileRun(i, ev)

\* a missing file is reported as ENOENT, an existing one is read; either
\* way the read may fail for another reason
ReadFileDone(i) ==
    \/ /\ file = Null
       /\ ReadFileCallback(i, ReadFailed("ENOENT"))
    \/ /\ file # Null
       /\ ReadFileCallback(i, ReadOk(file))
    \/ \E code \in IOErrorCodes : ReadFileCallback(i, ReadFailed(code))

\* the writeFile callback of invocation i runs, once
WriteFileRun(i, ev) ==
    /\ calls[i].op = "setConfigFile"
    /\ calls[i].text # Null
    /\ ~calls[i].cb
    /\ LET eff == setConfigFile_onWrite(Closure(i), ev)
       IN  /\ calls' = Store(i, ev, eff)
           /\ trace' = eff.tr
    /\ last' = [call |-> i, ev |-> ev]
    /\ file' = IF ev.err = Null THEN calls[i].text ELSE file
    /\ delivered' = delivered + 1
    /\ UNCHANGED <<socketVars, restVars>>

\* fs calls the writeFile callback of invocation i
WriteFileCallback(i, ev) ==
    /\ delivered < MaxEvents
    /\ WriteFileRun(i, ev)

WriteFileDone(i) ==
    \/ WriteFileCallback(i, WriteOk)
    \/ \E code \in IOErrorCodes : WriteFileCallback(i, WriteFailed(code))

InitBower ==
    /\ calls = <<>>
    /\ delivered = 0
    /\ last = [call |-> 0, ev |-> NoEvent]
    /\ trace = <<>>
    /\ file = Null

NextBower ==
    \/ \E op \in CommandOps : InvokeCommand(op)
    \/ getConfigFile
    \/ \E config \in Configs : setConfigFile(config)
    \/ \E i \in 1..Len(calls) : EmitLog(i)
    \/ \E i \in 1..Len(calls) : EmitError(i)
    \/ \E i \in 1..Len(calls) : EmitEnd(i)
    \/ \E i \in 1..Len(calls) : ReadFileDone(i)
    \/ \E i \in 1..Len(calls) : WriteFileDone(i)

(***************************************************************************)
(* BowerManager under the command protocol: any number of 'log' events,    *)
(* then exactly one terminal event, which is eventually delivered          *)
(***************************************************************************)
\* operations followed to their end in one behaviour
LiveCalls == MaxCalls - 1

\* bower.json as earlier runs may have left it: absent, or holding what some
\* setConfigFile wrote
DiskContents ==
    {Null} \cup {setConfigFile_text(c).text : c \in Configs \ {Circular}}

\* an operation is invoked
Invoke ==
    /\ Len(calls) < LiveCalls
    /\ \/ \E op \in CommandOps : InvokeCommand(op)
       \/ getConfigFile
       \/ \E config \in Configs : setConfigFile(config)

\* the command of invocation i reports progress before it terminates
LogBeforeTerminal(i) ==
    /\ calls[i].term = NoEvent
    /\ delivered + 1 < MaxEvents
    /\ EmitLog(i)

\* the command of invocation i terminates with 'error' or with 'end'
CommandTerminates(i) ==
    /\ calls[i].term = NoEvent
    /\ \/ \E code \in ErrorCodes : Deliver(i, ErrorEvent(code))
       \/ \E p \in EndPayloads : Deliver(i, EndEvent(p))

\* fs completes the read of invocation i
ReadCompletes(i) ==
    \/ /\ file = Null
       /\ ReadFileRun(i, ReadFailed("ENOENT"))
    \/ /\ file # Null
       /\ ReadFileRun(i, ReadOk(file))
    \/ \E code \in IOErrorCodes : ReadFileRun(i, ReadFailed(code))

\* fs completes the write of invocation i
WriteCompletes(i) ==
    \/ WriteFileRun(i, WriteOk)
    \/ \E code \in IOErrorCodes : WriteFileRun(i, WriteFailed(code))

\* the terminal event or callback of invocation i is delivered
Terminal(i) ==
    /\ i \in 1..Len(calls)
    /\ (CommandTerminates(i) \/ ReadCompletes(i) \/ WriteCompletes(i))

InitBowerLive ==
    /\ calls = <<>>
    /\ delivered = 0
    /\ last = [call |-> 0, ev |-> NoEvent]
    /\ trace = <<>>
    /\ file \in DiskContents

NextBowerLive ==
    \/ Invoke
    \/ \E i \in 1..Len(calls) : LogBeforeTerminal(i)
    \/ \E i \in 1..Len(calls) : CommandTerminates(i)
    \/ \E i \in 1..Len(calls) : ReadCompletes(i)
    \/ \E i \in 1..Len(calls) : WriteCompletes(i)

\* every command and every fs call that was started eventually delivers its
\* terminal event
FairBower == \A i \in 1..LiveCalls : WF_vars(Terminal(i))

(***************************************************************************)
(* Socket BaseSrv: the connection registry                                 *)
(***************************************************************************)
Ids == 1..MaxClients
\* a SocketIO.Socket handle
Socket(id) == [id |-> id]
\* a Map entry, and the slot a deleted entry leaves while an iteration runs
Entry(k, v) == [key |-> k, value |-> v]
Empty == [key |-> 0, value |-> Socket(0)]

MapKeys(m) == {m[n].key : n \in 1..Len(m)} \ {0}
MapSize(m) == Cardinality(MapKeys(m))
MapHas(m, k) == k \in MapKeys(m)
\* Map.prototype.set: a present key keeps its place, a new one goes last
MapSet(m, k, v) ==
    IF MapHas(m, k)
    THEN [n \in 1..Len(m) |-> IF m[n].key = k THEN Entry(k, v) ELSE m[n]]
    ELSE Append(m, Entry(k, v))
\* Map.prototype.delete while an iterator is live: the entry becomes empty,
\* the positions of the others do not move
MapDeleteInPlace(m, k) ==
    [n \in 1..Len(m) |-> IF m[n].key = k THEN Empty ELSE m[n]]
\* Map.prototype.delete with no iterator live: the empty slots are gone
RECURSIVE Compact(_)
Compact(m) ==
    IF m = <<>> THEN <<>>
    ELSE IF Head(m) = Empty THEN Compact(Tail(m))
    ELSE <<Head(m)>> \o Compact(Tail(m))

\* the argument socket.io passes with 'disconnect': a reason string, which
\* has no id (the 0 stands for undefined)
Reason == [id |-> 0]

\* a wrapper that passes the event's arguments on without the socket
WrapEventCallbackNoThis(self, args) == args

\* the function _wrapEventCallback returns, called by the emitter with
\* this = self and the event's arguments args: it calls the callback with
\* self put in front of args
WrapEventCallback(self, args) == <<self>> \o args

\* a disconnect hook that logs and leaves the registry alone
OnClientDisconnectKeep(m, socket) == m

\* _onClientDisconnect(socket) on registry m
OnClientDisconnect(m, socket) == MapDeleteInPlace(m, socket.id)

\* the loop of disconnectAll from iterator position idx on. st is
\* [data, sockets, calls, hookArg]; the sockets in sync deliver their
\* 'disconnect' event inside disconnect(true), the others later or never
\* a loop over a snapshot array that deletions shift: the entry after a
\* synchronously disconnected one is passed over
RECURSIVE DisconnectLoopSkipping(_, _, _)
DisconnectLoopSkipping(st, idx, sync) ==
    IF idx > Len(st.data) THEN st
    ELSE IF st.data[idx] = Empty THEN DisconnectLoopSkipping(st, idx + 1, sync)
    ELSE LET connection == st.data[idx].value
             id == connection.id
             open == st.sockets[id] = "connected"
             now == open /\ id \in sync
             args == WrapEventCallback(connection, <<Reason>>)
         IN  DisconnectLoopSkipping(
                [data |-> IF now THEN OnClientDisconnect(st.data, args[1]) ELSE st.data,
                 sockets |-> [st.sockets EXCEPT ![id] =
                                 IF now THEN "closed"
                                 ELSE IF open THEN "closing" ELSE @],
                 calls |-> [st.calls EXCEPT ![id] = @ + 1],
                 hookArg |-> IF now THEN args[1] ELSE st.hookArg],
                IF now THEN idx + 2 ELSE idx + 1, sync)

RECURSIVE DisconnectLoop(_, _, _)
DisconnectLoop(st, idx, sync) ==
    IF idx > Len(st.data) THEN st
    ELSE IF st.data[idx] = Empty THEN DisconnectLoop(st, idx + 1, sync)
    ELSE LET connection == st.data[idx].value
             id == connection.id
             open == st.sockets[id] = "connected"
             now == open /\ id \in sync
             args == WrapEventCallback(connection, <<Reason>>)
         IN  DisconnectLoop(
                [data |-> IF now THEN OnClientDisconnect(st.data, args[1]) ELSE st.data,
                 sockets |-> [st.sockets EXCEPT ![id] =
                                 IF now THEN "closed"
                                 ELSE IF open THEN "closing" ELSE @],
                 calls |-> [st.calls EXCEPT ![id] = @ + 1],
                 hookArg |-> IF now THEN args[1] ELSE st.hookArg],
                idx + 1, sync)

\* a call of a subclass hook: its name, the socket it is passed (Socket(0)
\* when it takes none), the socket being connected, and whether that socket
\* is in the registry when the hook runs
HookCall(hook, arg, socket, m) ==
    [hook |-> hook, arg |-> arg, conn |-> socket.id,
     registered |-> MapHas(m, socket.id)]

\* a connect handler that runs the hooks first and registers the connection
\* last
OnClientConnectHooksFirst(m, socket) ==
    [data |-> MapSet(m, socket.id, socket),
     steps |-> <<"_registerEvents", "_onCompleteConnectionProcess",
                 "on.disconnect", "set">>,
     hooks |-> <<HookCall("_registerEvents", socket, socket, m),
                 HookCall("_onCompleteConnectionProcess", Socket(0), socket, m)>>]

\* _onClientConnect(socket) on registry m: the registry it leaves, what it
\* does in order, and the hooks it calls
OnClientConnect(m, socket) ==
    LET m1 == MapSet(m, socket.id, socket)
    IN  [data |-> m1,
         steps |-> <<"set", "on.disconnect", "_registerEvents",
                     "_onCompleteConnectionProcess">>,
         hooks |-> <<HookCall("_registerEvents", socket, socket, m1),
                     HookCall("_onCompleteConnectionProcess", Socket(0), socket, m1)>>]

\* the namespaces a service is constructed with; "" stands for none, which
\* !!namespace treats alike
Namespaces == {"", "bower"}
\* the socket handed to the constructor, and what socket.of(name) returns
DefaultSocket == "/"
Of(name) == "/" \o name
\* the emitters of the transport
Emitters == {DefaultSocket} \cup {Of(ns) : ns \in Namespaces \ {""}}

\* a constructor that binds 'connect' on the socket it was handed, whatever
\* the namespace
ConstructorOnDefault(ns) ==
    [socket |-> DefaultSocket, bound |-> {DefaultSocket}]

\* the constructor: this.socket, and the emitters it binds 'connect' on
Constructor(ns) ==
    LET socket == IF ns # "" THEN Of(ns) ELSE DefaultSocket
    IN  [socket |-> socket, bound |-> {socket}]

\* the transport emits 'connect' on the emitter the service listens to, for
\* a new client: _onClientConnect(socket)
ClientConnect(id) ==
    /\ sockets[id] = "new"
    /\ \E e \in bound : channel' = [channel EXCEPT ![id] = e]
    /\ UNCHANGED <<namespace, bound>>
    /\ LET done == OnClientConnect(connections, Socket(id))
       IN  /\ connections' = done.data
           /\ steps' = done.steps
           /\ hooks' = done.hooks
    /\ sockets' = [sockets EXCEPT ![id] = "connected"]
    /\ UNCHANGED <<disconnectCalls, hookArg, summary, daCalled>>
    /\ UNCHANGED <<bowerVars, restVars>>

\* the transport emits 'connect' on an emitter the service has no handler
\* on: nothing of the service runs
ConnectElsewhere(id) ==
    /\ sockets[id] = "new"
    /\ \E e \in Emitters \ bound : channel' = [channel EXCEPT ![id] = e]
    /\ sockets' = [sockets EXCEPT ![id] = "elsewhere"]
    /\ steps' = <<>>
    /\ hooks' = <<>>
    /\ UNCHANGED <<connections, disconnectCalls, hookArg, summary, daCalled,
                   namespace, bound>>
    /\ UNCHANGED <<bowerVars, restVars>>

\* a socket emits 'disconnect' (the client left, or the disconnect asked for
\* by disconnect(true) completes): the wrapped _onClientDisconnect runs
ClientDisconnect(id) ==
    /\ sockets[id] \in {"connected", "closing"}
    /\ LET args == WrapEventCallback(Socket(id), <<Reason>>)
       IN  /\ connections' = Compact(OnClientDisconnect(connections, args[1]))
           /\ hookArg' = args[1]
    /\ sockets' = [sockets EXCEPT ![id] = "closed"]
    /\ steps' = <<"_onClientDisconnect">>
    /\ hooks' = <<>>
    /\ UNCHANGED <<disconnectCalls, summary, daCalled, namespace, bound, channel>>
    /\ UNCHANGED <<bowerVars, restVars>>

\* disconnectAll()
DisconnectAll(sync) ==
    LET st == DisconnectLoop(
                 [data |-> connections, sockets |-> sockets,
                  calls |-> disconnectCalls, hookArg |-> hookArg], 1, sync)
    IN  /\ summary' = MapSize(st.data)
        /\ connections' = <<>>
        /\ sockets' = st.sockets
        /\ disconnectCalls' = st.calls
        /\ hookArg' = st.hookArg
        /\ steps' = <<"disconnectAll">>
        /\ hooks' = <<>>
        /\ daCalled' = TRUE
        /\ UNCHANGED <<namespace, bound, channel>>
        /\ UNCHANGED <<bowerVars, restVars>>

\* the service as new BaseSrv(name, socket, ns) leaves it
Constructed(ns) ==
    /\ namespace = ns
    /\ bound = Constructor(ns).bound
    /\ channel = [id \in Ids |-> ""]
    /\ connections = <<>>
    /\ sockets = [id \in Ids |-> "new"]
    /\ disconnectCalls = [id \in Ids |-> 0]
    /\ hookArg = Socket(0)
    /\ steps = <<>>
    /\ hooks = <<>>
    /\ summary = -1
    /\ daCalled = FALSE

\* constructed without a namespace
InitSocket == Constructed("")
\* constructed with or without one
InitSocketAny == \E ns \in Namespaces : Constructed(ns)

NextSocket ==
    \/ \E id \in Ids : ClientConnect(id)
    \/ \E id \in Ids : ConnectElsewhere(id)
    \/ \E id \in Ids : ClientDisconnect(id)
    \/ \E sync \in SUBSET MapKeys(connections) : DisconnectAll(sync)

(***************************************************************************)
(* REST BaseSrv: requests, the descriptor they carry, and the responses    *)
(***************************************************************************)
Undefined == [kind |-> "undefined", body |-> <<>>]
False == [kind |-> "false", body |-> <<>>]
\* an object, as the sequence of its keys and values
Object(kv) == [kind |-> "object", body |-> kv]
\* what `this` is in the callbacks of a deferred settled without a context
PromiseCtx == [kind |-> "promise", body |-> <<>>]
\* JavaScript truthiness of the values used here
Truthy(v) == v.kind \notin {"undefined", "null", "false"}
\* a || b
Or(a, b) == IF Truthy(a) THEN a ELSE b

\* $.Deferred(): the first settlement wins; ctx is `this` in the callbacks
\* and args their arguments
JqDeferred == [state |-> "pending", ctx |-> Undefined, args |-> <<>>]
JqSettleWith(d, state, ctx, args) ==
    IF d.state = "pending"
    THEN [state |-> state, ctx |-> ctx, args |-> args]
    ELSE d
JqResolveWith(d, ctx, args) == JqSettleWith(d, "resolved", ctx, args)
JqResolve(d, args) == JqSettleWith(d, "resolved", PromiseCtx, args)
JqRejectWith(d, ctx, args) == JqSettleWith(d, "rejected", ctx, args)
JqReject(d, args) == JqSettleWith(d, "rejected", PromiseCtx, args)

\* the services: BaseSrv itself and a subclass that overrides _parseResult
Instances == {"BaseSrv", "PackagesSrv"}
\* the calls the subclasses make: method name, verb and data
Methods ==
    { [method |-> "list", type |-> "GET", data |-> Object(<<"q", "jquery">>)],
      [method |-> "save", type |-> "POST", data |-> Object(<<"name", "app">>)],
      [method |-> "setEnabled", type |-> "PUT", data |-> False] }
\* the config argument: absent, or with a context and data to share
RequestConfigs ==
    { Undefined,
      Object(<<"context", "view", "share", "row">>) }
\* config.context and config.share, after config = config || {}
ConfigField(config, key) ==
    LET c == Or(config, Object(<<>>))
    IN  IF \E n \in DOMAIN c.body : n % 2 = 1 /\ c.body[n] = key
        THEN LET n == CHOOSE n \in DOMAIN c.body : n % 2 = 1 /\ c.body[n] = key
             IN  Text(<<c.body[n + 1]>>)
        ELSE Undefined

\* the responses $http settles its promise with
HttpOk == [ok |-> TRUE, status |-> "200", statusText |-> "OK",
           data |-> Object(<<"rows", "2">>)]
HttpFailures ==
    { [ok |-> FALSE, status |-> "404", statusText |-> "Not Found", data |-> Null],
      [ok |-> FALSE, status |-> "503", statusText |-> "Service Unavailable",
       data |-> Null] }
NoResponse == [ok |-> FALSE, status |-> "", statusText |-> "", data |-> Null]

\* _parseResult(method, params, data): BaseSrv returns data, the overriding
\* subclass returns a value built from its three arguments
ParseResult(instance, method, params, data) ==
    IF instance = "BaseSrv" THEN data
    ELSE [kind |-> "parsed", body |-> <<method, params.kind>> \o data.body]
\* the record of a _parseResult call
ParseCall(instance, method, params, data) ==
    [instance |-> instance, method |-> method, params |-> params, data |-> data]

\* what a response handler leaves behind: the deferred and the hook calls
Settlement(d, hc) == [deferred |-> d, hookCalls |-> hc]

\* the req object _makeRequest builds: the verb, where the data travels, and
\* the descriptor req._data (the descriptor has no `data` member)
MakeRequest(instance, method, type, data, config) ==
    [type |-> type,
     params |-> IF type = "GET" THEN data ELSE Undefined,
     data |-> IF type = "GET" THEN Undefined ELSE data,
     descr |-> [method |-> method, instance |-> instance, params |-> data,
                data |-> Undefined,
                context |-> ConfigField(config, "context"),
                shared |-> ConfigField(config, "share")]]

\* _onSuccess(response), with response.config the req of the request and d
\* its descriptor's deferred
OnSuccess(req, d, response) ==
    LET descr == req.descr
        params == Or(descr.params, descr.data)
        data == ParseResult(descr.instance, descr.method, params, response.data)
        hc == <<ParseCall(descr.instance, descr.method, params, response.data)>>
    IN  IF Truthy(descr.context)
        THEN Settlement(JqResolveWith(d, descr.context, <<data, descr.shared>>), hc)
        ELSE Settlement(JqResolve(d, <<data, descr.shared>>), hc)

\* an error handler that puts the status code under message and the status
\* text under error
OnErrorSwapped(req, d, response) ==
    LET descr == req.descr
        e == Object(<<"message", response.status, "error", response.statusText>>)
    IN  IF Truthy(descr.context)
        THEN Settlement(JqRejectWith(d, descr.context, <<e, descr.shared>>), <<>>)
        ELSE Settlement(JqReject(d, <<e, descr.shared>>), <<>>)

\* _onError(response)
OnError(req, d, response) ==
    LET descr == req.descr
        e == Object(<<"message", response.statusText, "error", response.status>>)
    IN  IF Truthy(descr.context)
        THEN Settlement(JqRejectWith(d, descr.context, <<e, descr.shared>>), <<>>)
        ELSE Settlement(JqReject(d, <<e, descr.shared>>), <<>>)

\* a subclass calls _makeGet, _makePost, _makePut or _makeDelete, which call
\* _makeRequest: the request is handed to $http and the promise returned
MakeCall(instance, m, config) ==
    /\ Len(requests) < MaxRequests
    /\ requests' = Append(requests,
                       [req |-> MakeRequest(instance, m.method, m.type, m.data, config),
                        config |-> config,
                        deferred |-> JqDeferred,
                        response |-> NoResponse])
    /\ rlast' = [req |-> Len(requests) + 1, kind |-> "request"]
    /\ hookCalls' = <<>>
    /\ UNCHANGED <<bowerVars, socketVars>>

\* $http settles the promise of request k, once, and `then` runs the handler
Respond(k, response) ==
    /\ requests[k].response = NoResponse
    /\ LET r == requests[k]
           done == IF response.ok THEN OnSuccess(r.req, r.deferred, response)
                   ELSE OnError(r.req, r.deferred, response)
       IN  /\ requests' = [requests EXCEPT ![k].deferred = done.deferred,
                                           ![k].response = response]
           /\ hookCalls' = done.hookCalls
    /\ rlast' = [req |-> k, kind |-> IF response.ok THEN "success" ELSE "error"]
    /\ UNCHANGED <<bowerVars, socketVars>>

HttpSuccess(k) == Respond(k, HttpOk)
HttpError(k) == \E response \in HttpFailures : Respond(k, response)

InitRest ==
    /\ requests = <<>>
    /\ rlast = [req |-> 0, kind |-> "none"]
    /\ hookCalls = <<>>

NextRest ==
    \/ \E instance \in Instances, m \in Methods, config \in RequestConfigs :
            MakeCall(instance, m, config)
    \/ \E k \in 1..Len(requests) : HttpSuccess(k)
    \/ \E k \in 1..Len(requests) : HttpError(k)

(***************************************************************************)
(* Specifications                                                          *)
(***************************************************************************)
Init == InitBower /\ InitSocket /\ InitRest
\* the socket service constructed with or without a namespace
InitNamespaced == InitBower /\ InitSocketAny /\ InitRest
\* bower.json as earlier runs left it
InitLive == InitBowerLive /\ InitSocket /\ InitRest

SpecBower == Init /\ [][NextBower]_vars
SpecSocket == InitNamespaced /\ [][NextSocket]_vars
SpecRest == Init /\ [][NextRest]_vars
SpecBowerLive == InitLive /\ [][NextBowerLive]_vars /\ FairBower

(***************************************************************************)
(* Properties of BowerManager (checked under SpecBower)                    *)
(***************************************************************************)
CallIds == 1..Len(calls)
Settled(c) == c.d.state # "pending"
\* the event just delivered to invocation i
JustGot(i, ev) == last = [call |-> i, ev |-> ev]

\* C1: the future of every operation is settled at most once: once it is
\* resolved or rejected, no later event or callback changes its outcome or
\* its value
C1_SettledOnce ==
    [][\A i \in CallIds : Settled(calls[i]) => calls'[i].d = calls[i].d]_vars

\* an 'error' event reaches an invocation whose future an 'end' event resolved
C1_Witness ==
    \E i \in CallIds :
        /\ calls[i].term.type = "end"
        /\ last.call = i /\ last.ev.type = "error"
        /\ calls[i].d.state = "resolved"

\* C2: uninstall resolves with null, and is not rejected, once the command
\* has logged 'not-installed'; a following 'end' does not replace the null
C2_NotInstalledResolvesNull ==
    \A i \in CallIds :
        (calls[i].op = "uninstall" /\ calls[i].ni)
            => calls[i].d.state = "resolved" /\ calls[i].d.value = Null

\* uninstall got 'not-installed' and then 'end'
C2_Witness ==
    \E i \in CallIds :
        /\ calls[i].op = "uninstall" /\ calls[i].ni
        /\ \E p \in EndPayloads : JustGot(i, EndEvent(p))

\* C3: info resolves with null on ENOTFOUND, without an error-level log line,
\* rejects with the error on any other code, and resolves with the non-null
\* payload on 'end'
C3_InfoOutcomes ==
    \A i \in CallIds :
        calls[i].op = "info" =>
            LET c == calls[i] IN
            /\ (c.term.type = "error" /\ ErrCode(c.term.err) = "ENOTFOUND")
                   => c.d.state = "resolved" /\ c.d.value = Null
            /\ (c.term.type = "error" /\ ErrCode(c.term.err) # "ENOTFOUND")
                   => c.d.state = "rejected" /\ c.d.value = c.term.err
            /\ c.term.type = "end"
                   => c.d.state = "resolved" /\ c.d.value = c.term.data
                        /\ c.d.value # Null
            /\ JustGot(i, ErrorEvent("ENOTFOUND"))
                   => \A n \in 1..Len(trace) : trace[n] # "logger.error"

\* one info ended with ENOTFOUND, another with a different error
C3_Witness ==
    \E i, j \in CallIds :
        /\ calls[i].op = "info" /\ JustGot(i, ErrorEvent("ENOTFOUND"))
        /\ calls[i].term = ErrorEvent("ENOTFOUND")
        /\ calls[j].op = "info" /\ calls[j].term = ErrorEvent("ECONFLICT")

\* the readFile callback of invocation i just ran with text that is / is not
\* valid JSON
JustReadText(i, valid) ==
    /\ calls[i].op = "getConfigFile"
    /\ last.call = i /\ last.ev.type = "read" /\ last.ev.err = Null
    /\ JSONParse(last.ev.data.body).ok = valid

\* C4: when the file is read and is not valid JSON, getConfigFile rejects
\* with a non-null parse error and the callback raises no exception
C4_InvalidJsonRejectsWithParseError ==
    \A i \in CallIds :
        JustReadText(i, FALSE) =>
            /\ calls[i].d.state = "rejected"
            /\ calls[i].d.value # Null /\ calls[i].d.value.kind = "error"
            /\ \A n \in 1..Len(trace) : trace[n] # "throw"

\* C5: when the file is read and is valid JSON, getConfigFile resolves with
\* the parsed content, not with the raw text
C5_ValidJsonResolvesParsed ==
    \A i \in CallIds :
        JustReadText(i, TRUE) =>
            /\ calls[i].d.state = "resolved"
            /\ calls[i].d.value = Json(JSONParse(last.ev.data.body).val)

\* C6: a read that fails with ENOENT resolves getConfigFile with null; a
\* read that fails with any other code rejects it with the read error
C6_ReadErrors ==
    \A i \in CallIds :
        LET c == calls[i] IN
        (c.op = "getConfigFile" /\ c.term.type = "read" /\ c.term.err # Null)
            => IF ErrCode(c.term.err) = "ENOENT"
               THEN c.d.state = "resolved" /\ c.d.value = Null
               ELSE c.d.state = "rejected" /\ c.d.value = c.term.err

\* one read failed with ENOENT, another with EACCES
C6_Witness ==
    \E i, j \in CallIds :
        /\ calls[i].op = "getConfigFile" /\ calls[i].term = ReadFailed("ENOENT")
        /\ calls[j].op = "getConfigFile" /\ calls[j].term = ReadFailed("EACCES")

\* an error object carrying a code and a message
IsError(v) == v.kind = "error" /\ Len(v.body) = 2

\* C7 as stated: whenever a command terminates with 'error', the future
\* rejects exactly once with a non-null {code, message} error
C7_ErrorAlwaysRejects ==
    \A i \in CallIds :
        LET c == calls[i] IN
        (c.op \in CommandOps /\ c.term.type = "error")
            => /\ c.d.state = "rejected" /\ c.d.value = c.term.err
               /\ IsError(c.d.value) /\ c.d.settles = 1

\* the two benign cases, which resolve with null
Benign(c) ==
    \/ c.op = "info" /\ c.term.type = "error" /\ ErrCode(c.term.err) = "ENOTFOUND"
    \/ c.op = "uninstall" /\ c.ni

\* C7 amended: whenever a command terminates with 'error', the future
\* rejects exactly once with that non-null {code, message} error and is not
\* resolved, except for info with ENOTFOUND and for uninstall after a
\* 'not-installed' log, where it is resolved with null
C7_ErrorRejectsUnlessBenign ==
    \A i \in CallIds :
        LET c == calls[i] IN
        (c.op \in CommandOps /\ c.term.type = "error")
            => IF Benign(c)
               THEN c.d.state = "resolved" /\ c.d.value = Null
               ELSE /\ c.d.state = "rejected" /\ c.d.value = c.term.err
                    /\ IsError(c.d.value) /\ c.d.settles = 1

\* a search and an uninstall both ended with 'error'
C7_Witness ==
    \E i, j \in CallIds :
        /\ calls[i].op = "search" /\ calls[i].term.type = "error"
        /\ calls[j].op = "uninstall" /\ calls[j].term.type = "error"
        /\ ~calls[j].ni

\* what JSON.parse makes of a value, when it is a text that parses
ParsedForm(v) ==
    IF v.kind = "text" /\ JSONParse(v.body).ok
    THEN Json(JSONParse(v.body).val)
    ELSE [kind |-> "unparseable", body |-> <<>>]

\* setConfigFile i has resolved and getConfigFile j has just read what it wrote
RoundTrip(i, j) ==
    /\ calls[i].op = "setConfigFile"
    /\ calls[i].term = WriteOk /\ calls[i].d.state = "resolved"
    /\ file = calls[i].text
    /\ calls[j].op = "getConfigFile"
    /\ JustGot(j, ReadOk(calls[i].text))

\* C11 as stated: for any JSON-serialisable config c, setConfigFile(c)
\* followed by getConfigFile() yields a result whose parsed form equals c
C11_RoundTripAnyConfig ==
    \A i, j \in CallIds :
        RoundTrip(i, j) =>
            /\ calls[j].d.state = "resolved"
            /\ ParsedForm(calls[j].d.value) = calls[i].config

\* C11 amended: for any JSON-serialisable config c that is not a string,
\* setConfigFile(c) followed by getConfigFile() yields a result whose parsed
\* form equals c
C11_RoundTripNonString ==
    \A i, j \in CallIds :
        (RoundTrip(i, j) /\ calls[i].config.kind = "json") =>
            /\ calls[j].d.state = "resolved"
            /\ ParsedForm(calls[j].d.value) = calls[i].config

\* an object was written and has just been read back
C11_Witness ==
    \E i, j \in CallIds :
        /\ RoundTrip(i, j)
        /\ calls[i].config = Json(<<"obj", "name", "str", "app">>)
        /\ calls[j].d.state = "resolved"

\* how many times effect x occurs in the effects tr of a step
Count(tr, x) == Cardinality({k \in DOMAIN tr : tr[k] = x})

C15_ErrorLoggedBeforeReject ==
    \A k \in DOMAIN trace :
        trace[k] = "reject" => \E m \in 1..(k - 1) : trace[m] = "logger.error"

\* the progress log lines among the effects of a step
ProgressLines(tr) ==
    Count(tr, "logger.trace") + Count(tr, "logger.file.info")
        + Count(tr, "logger.warn")

\* C16 as stated: each 'log' event a command emits during a call produces
\* one log line carrying it, so that the lines written equal the events
\* delivered
C16_OneLinePerLogEvent ==
    \A i \in CallIds :
        (/\ calls[i].op \in CommandOps
         /\ calls[i].term = NoEvent
         /\ last.call = i /\ last.ev.type = "log") => ProgressLines(trace) = 1

\* C17 as stated: a command invocation that terminates with 'end' resolves
\* exactly once with the payload of the 'end' event, and once the future is
\* resolved no later event of that command has any effect: no log line, no
\* continuation log marker, no attempt to settle
C17_ResolvedOnceThenSilent ==
    /\ [](\A i \in CallIds :
            (calls[i].op \in CommandOps /\ calls[i].term.type = "end") =>
                /\ calls[i].d.state = "resolved"
                /\ calls[i].d.value = calls[i].term.data
                /\ calls[i].d.settles = 1)
    /\ [][\A i \in CallIds :
            (/\ calls[i].op \in CommandOps
             /\ calls[i].d.state = "resolved"
             /\ delivered' = delivered + 1
             /\ last'.call = i) => trace' = <<>>]_vars

\* C20: an event or callback of one invocation settles only that
\* invocation's future: the future of every other invocation, pending or
\* settled, is left as it was, whatever the order of the events
C20_FailureIsolation ==
    [][\A i \in CallIds :
        (delivered' = delivered + 1 /\ last'.call # i) =>
            /\ calls'[i].d = calls[i].d
            /\ calls'[i].cl = calls[i].cl]_vars

\* of two invocations the first has been rejected by its command's 'error'
\* and the second, invoked later, resolved by its own command's 'end'
C20_Witness ==
    /\ Len(calls) = 2
    /\ calls[1].op = "install" /\ calls[2].op = "search"
    /\ calls[1].term.type = "error" /\ calls[1].d.state = "rejected"
    /\ calls[2].term.type = "end" /\ calls[2].d.state = "resolved"
    /\ calls[2].d.value = calls[2].term.data

\* C21: provided the command or the file API eventually delivers its
\* terminal event ('error' or 'end', or the read or write callback), the
\* future of every operation is eventually settled; none stays pending
\* forever: from some point on every future returned so far is settled
\* (checked under SpecBowerLive)
C21_EventuallySettled == <>[](\A i \in CallIds : Settled(calls[i]))

\* an info lookup was pending with progress reported, and its 'end' has
\* now settled it
C21_Witness ==
    \E i \in CallIds :
        /\ calls[i].op = "info"
        /\ JustGot(i, EndEvent("pkg"))
        /\ delivered >= 2
        /\ calls[i].d.state = "resolved"

\* C23 as stated: in uninstall, for any 'log' events followed by one
\* terminal event, also with several 'not-installed' logs, the continuation
\* log marker is invoked at most once per call and never after it has been
\* cleared, and every handler runs to completion without raising
C23_MarkerOnceNoException ==
    \A i \in CallIds :
        (/\ calls[i].op = "uninstall"
         /\ last.call = i
         /\ \/ last.ev.type = "log" /\ calls[i].term = NoEvent
            \/ last.ev.type \in {"error", "end"} /\ calls[i].term = last.ev) =>
            /\ Count(trace, "throw") = 0
            /\ Count(trace, "continueLog") <= 1
            /\ (calls[i].cl = "null" /\ last.ev.type # "log") =>
                    Count(trace, "continueLog") = 0

(***************************************************************************)
(* Properties of the socket BaseSrv (checked under SpecSocket)             *)
(***************************************************************************)
\* the registry m without the entry of key k, the others in their order
Without(m, k) == SelectSeq(m, LAMBDA e : e.key # k)

\* C8: disconnectAll calls disconnect(true) exactly once on every registered
\* connection and leaves the registry empty, whether the 'disconnect' events
\* are delivered inside the loop, later, or never
C8_DisconnectAllReachesEveryone ==
    [][steps' = <<"disconnectAll">> =>
          /\ connections' = <<>>
          /\ \A id \in Ids :
                disconnectCalls'[id] =
                    disconnectCalls[id] + (IF MapHas(connections, id) THEN 1 ELSE 0)
      ]_vars

\* disconnectAll has just run on two connections or more: one delivered its
\* 'disconnect' inside the loop, another has not delivered it
C8_Witness ==
    /\ steps = <<"disconnectAll">>
    /\ \E a, b \in Ids :
          /\ sockets[a] = "closed" /\ hookArg = Socket(a) /\ disconnectCalls[a] = 1
          /\ sockets[b] = "closing" /\ disconnectCalls[b] = 1

\* C9: without disconnectAll, the registry's keys are exactly the clients
\* that have connected and not disconnected, each mapped to its own handle,
\* one entry per client
C9_RegistryIsLiveClients ==
    ~daCalled =>
        /\ MapKeys(connections) = {id \in Ids : sockets[id] = "connected"}
        /\ Len(connections) = Cardinality(MapKeys(connections))
        /\ \A n \in 1..Len(connections) :
              connections[n].value = Socket(connections[n].key)

\* two clients are connected and a third has connected and disconnected
C9_Witness ==
    /\ ~daCalled
    /\ Len(connections) = 2
    /\ \E id \in Ids : sockets[id] = "closed"

\* C10: a 'disconnect' event runs the hook with the emitting connection and
\* removes that connection's entry and no other; when the connection is no
\* longer registered the registry is unchanged
C10_DisconnectRemovesOnlyThatEntry ==
    [][steps' = <<"_onClientDisconnect">> =>
          \E id \in Ids :
              /\ sockets[id] # "closed" /\ sockets'[id] = "closed"
              /\ hookArg' = Socket(id)
              /\ connections' = Without(connections, id)
              /\ ~MapHas(connections, id) => connections' = connections
      ]_vars

\* a registered connection has just disconnected and others remain
C10_Witness ==
    /\ steps = <<"_onClientDisconnect">>
    /\ ~daCalled
    /\ Len(connections) = 2
    /\ hookArg \in {Socket(id) : id \in Ids}

\* the most recent socket handler was _onClientConnect
ConnectHandled ==
    \E k \in DOMAIN steps :
        steps[k] \in {"set", "_registerEvents", "_onCompleteConnectionProcess"}

\* C18: for every 'connect' event the connection is first added to the
\* registry under its id, then its 'disconnect' handler is bound, then
\* _registerEvents is called with that connection, and then
\* _onCompleteConnectionProcess; the connection is in the registry whenever
\* either hook runs, and each hook runs exactly once
C18_ConnectOrder ==
    ConnectHandled =>
        /\ steps = <<"set", "on.disconnect", "_registerEvents",
                     "_onCompleteConnectionProcess">>
        /\ Len(hooks) = 2
        /\ hooks[1].hook = "_registerEvents"
        /\ hooks[1].arg = Socket(hooks[1].conn)
        /\ hooks[2].hook = "_onCompleteConnectionProcess"
        /\ hooks[2].conn = hooks[1].conn
        /\ \A k \in DOMAIN hooks : hooks[k].registered
        /\ \E n \in DOMAIN connections :
                connections[n] = Entry(hooks[1].conn, Socket(hooks[1].conn))
        /\ sockets[hooks[1].conn] = "connected"

\* a second client has just connected while the first is registered
C18_Witness ==
    /\ ConnectHandled
    /\ MapSize(connections) = 2
    /\ hooks[1].conn = connections[2].key

\* C19 as stated: the summary line of disconnectAll reports the number of
\* connections it disconnected, that is the size of the registry when it was
\* called, also when the 'disconnect' events are delivered inside the loop
C19_SummaryCountsDisconnected ==
    [][steps' = <<"disconnectAll">> => summary' = MapSize(connections)]_vars

\* C22: with a non-empty namespace the 'connect' handler is bound to exactly
\* one emitter, the one obtained for '/<namespace>', and never to the default
\* socket; with none it is bound to exactly the default socket; a client
\* that connects on the other channel is never in the registry
C22_NamespaceScoping ==
    /\ Cardinality(bound) = 1
    /\ namespace # "" => bound = {Of(namespace)} /\ DefaultSocket \notin bound
    /\ namespace = "" => bound = {DefaultSocket}
    /\ \A id \in Ids :
            /\ channel[id] \notin bound => ~MapHas(connections, id)
            /\ MapHas(connections, id) => channel[id] \in bound

\* a service constructed with namespace 'bower' has registered a client
\* that connected on '/bower' and not one that connected on the default
\* socket
C22_Witness ==
    /\ namespace = "bower"
    /\ \E a, b \in Ids :
            /\ channel[a] = Of("bower") /\ MapHas(connections, a)
            /\ channel[b] = DefaultSocket /\ sockets[b] = "elsewhere"

(***************************************************************************)
(* Properties of the REST BaseSrv (checked under SpecRest)                 *)
(***************************************************************************)
RequestIds == 1..Len(requests)
\* the arguments _makeRequest was called with for request k
Given(k) ==
    LET d == requests[k].req.descr
    IN  [instance |-> d.instance, method |-> d.method,
         data |-> IF requests[k].req.type = "GET" THEN requests[k].req.params
                  ELSE requests[k].req.data,
         context |-> ConfigField(requests[k].config, "context"),
         shared |-> ConfigField(requests[k].config, "share")]

\* C13 as stated: on a successful response the _parseResult of the instance
\* that made the request is called with the request's method name, its
\* parameters and the response data, and the future resolves with the value
\* the hook returns and is not rejected
C13_SuccessParsesThenResolves ==
    \A k \in RequestIds :
        (rlast = [req |-> k, kind |-> "success"]) =>
            LET g == Given(k)
                resp == requests[k].response
            IN  /\ hookCalls = <<ParseCall(g.instance, g.method, g.data, resp.data)>>
                /\ requests[k].deferred.state = "resolved"
                /\ requests[k].deferred.args[1] =
                       ParseResult(g.instance, g.method, g.data, resp.data)

\* C14: on a failed response the future rejects with an object whose message
\* is the status text and whose error is the status code, _parseResult is
\* not called and the future is not resolved, with a context (which the
\* rejection is then bound to) and without one
C14_FailureRejects ==
    \A k \in RequestIds :
        (~requests[k].response.ok /\ requests[k].response # NoResponse) =>
            LET g == Given(k)
                resp == requests[k].response
                d == requests[k].deferred
            IN  /\ d.state = "rejected"
                /\ d.args[1] = Object(<<"message", resp.statusText,
                                        "error", resp.status>>)
                /\ d.ctx = IF Truthy(g.context) THEN g.context ELSE PromiseCtx
                /\ (rlast.req = k => hookCalls = <<>>)

\* one request with a context and one without have both failed
C14_Witness ==
    \E k, n \in RequestIds :
        /\ Truthy(Given(k).context) /\ ~Truthy(Given(n).context)
        /\ requests[k].deferred.state = "rejected"
        /\ requests[n].deferred.state = "rejected"
        /\ requests[k].response.status = "404"
        /\ requests[n].response.status = "503"

\* the response just handled settled the future of its request with that
\* request's own method name, parameters, context and shared data
OwnArguments(k) ==
    LET g == Given(k)
        resp == requests[k].response
        d == requests[k].deferred
    IN  /\ d.state = IF resp.ok THEN "resolved" ELSE "rejected"
        /\ d.ctx = IF Truthy(g.context) THEN g.context ELSE PromiseCtx
        /\ d.args[2] = g.shared
        /\ IF resp.ok
           THEN /\ hookCalls = <<ParseCall(g.instance, g.method, g.data, resp.data)>>
                /\ d.args[1] = ParseResult(g.instance, g.method, g.data, resp.data)
           ELSE /\ hookCalls = <<>>
                /\ d.args[1] = Object(<<"message", resp.statusText,
                                        "error", resp.status>>)

\* a step that handles the response of request k settles the future of k,
\* which was pending, and leaves every other request's future as it was
OthersUntouched(k) ==
    /\ requests[k].deferred.state = "pending"
    /\ requests'[k].deferred.state # "pending"
    /\ \A n \in RequestIds : n # k => requests'[n] = requests[n]

\* C24 as stated: with several requests outstanding and responses arriving
\* in any order, each response settles exactly the future of the
\* _makeRequest call that issued it, each future is settled exactly once,
\* and the method name, parameters, context and shared data used are those
\* of that same request
C24_ResponsesMatchRequests ==
    /\ [](\A k \in RequestIds : rlast.req = k /\ rlast.kind # "request"
                                    => OwnArguments(k))
    /\ [][\A k \in RequestIds : rlast'.req = k /\ rlast'.kind # "request"
                                    => OthersUntouched(k)]_vars

=============================================================================
